---- MODULE Spec2Model ----
(***************************************************************************)
(* CLI Tic-Tac-Toe with a minimax (alpha-beta) AI: tictactoe.py.           *)
(*                                                                         *)
(* The board is a Python list of 9 strings that the search mutates in      *)
(* place.  Here a board is a function 0..8 -> {" ", "X", "O"}; every       *)
(* function of the program that writes the list takes the board and gives  *)
(* back the board it leaves behind, so that an assignment board[m] = s is  *)
(* an EXCEPT and a missing or wrong undo shows in the board returned.      *)
(***************************************************************************)
EXTENDS Integers, Sequences, FiniteSets, TLC

VARIABLES
    pc,            \* position of the program: see the specifications below
    mode,          \* play: "hva" | "hvh" ("none" before choose_mode)
    human_symbol,  \* play: the human's symbol in hva mode
    ai_symbol,     \* play: the AI's symbol in hva mode; the argument of a call
    first,         \* play: the value choose_first returned
    current,       \* play: the symbol to move; the player argument of a call
    board,         \* the list of 9 cells
    winner,        \* the last value check_winner returned to play
    first_mover,   \* which side made the first move of the game
    ret            \* what the last call returned (or raised)

vars == <<pc, mode, human_symbol, ai_symbol, first, current, board, winner,
          first_mover, ret>>

----------------------------------------------------------------------------
(* Values *)

Empty == " "
Symbols == {"X", "O"}
CellValues == {Empty, "X", "O"}
None == "None"
Draw == "D"
NoMove == -1
NegInf == -2
PosInf == 2
Cells == <<0, 1, 2, 3, 4, 5, 6, 7, 8>>
CellSet == 0..8

\* The depth of nested minimax frames at which the interpreter gives up
\* (RecursionError); a stand-in for the interpreter's recursion limit.
MaxRecursion == 12

WIN_LINES == <<
    <<0, 1, 2>>, <<3, 4, 5>>, <<6, 7, 8>>,
    <<0, 3, 6>>, <<1, 4, 7>>, <<2, 5, 8>>,
    <<0, 4, 8>>, <<2, 4, 6>> >>

fresh_board == [i \in CellSet |-> Empty]

Max(a, b) == IF a >= b THEN a ELSE b
Min(a, b) == IF a <= b THEN a ELSE b

----------------------------------------------------------------------------
(* Board model *)

LineWon(b, k) ==
    /\ b[WIN_LINES[k][1]] # Empty
    /\ b[WIN_LINES[k][1]] = b[WIN_LINES[k][2]]
    /\ b[WIN_LINES[k][2]] = b[WIN_LINES[k][3]]

\* The first line of WIN_LINES, in the declared order, that one symbol fills;
\* 0 when there is none.
FirstWonLine(b, from) ==
    IF \E k \in from..Len(WIN_LINES) : LineWon(b, k)
    THEN CHOOSE k \in from..Len(WIN_LINES) :
            LineWon(b, k) /\ \A j \in from..(k - 1) : ~LineWon(b, j)
    ELSE 0

check_winner_nodraw(b) ==
    LET k == FirstWonLine(b, 1) IN
    IF k # 0 THEN b[WIN_LINES[k][1]] ELSE None

check_winner(b) ==
    LET k == FirstWonLine(b, 1) IN
    IF k # 0 THEN b[WIN_LINES[k][1]]
    ELSE IF \A i \in CellSet : b[i] # Empty THEN Draw
    ELSE None

available_moves(b) == SelectSeq(Cells, LAMBDA i : b[i] = Empty)

other(player) == IF player = "X" THEN "O" ELSE "X"

PlaceBlank(b, m, s) == [b EXCEPT ![m] = Empty]

\* board[m] = s
Place(b, m, s) == [b EXCEPT ![m] = s]

UndoForgotten(b, m) == b

\* board[m] = " "
Undo(b, m) == [b EXCEPT ![m] = Empty]

NumEmpty(b) == Cardinality({i \in CellSet : b[i] = Empty})

----------------------------------------------------------------------------
(* Search engine *)

\* A call of minimax, running or finished: its locals (value and best_move
\* are the tuple it returns), the board list as the call has left it, and
\* what the call has done so far:
\*   had    the number of Empty cells of the board it was given;
\*   depth  the number of minimax frames nested below it;
\*   stop   its loop has been left, through break or by an exception;
\*   cut    some loop was left through break before its last candidate;
\*   sib    every candidate of every loop was tried on the board its loop
\*          started with;
\*   dec    every recursive call got a board with fewer Empty cells than
\*          its caller's;
\*   err    the call raised RecursionError.
Frame(b, value, alpha, beta) ==
    [err |-> FALSE, board |-> b, value |-> value, best_move |-> NoMove,
     alpha |-> alpha, beta |-> beta, had |-> NumEmpty(b), depth |-> 0,
     stop |-> FALSE, cut |-> FALSE, sib |-> TRUE, dec |-> TRUE]

\* RecursionError, raised in the frame that was given b.
Raised(b) == [Frame(b, 0, NegInf, PosInf) EXCEPT !.err = TRUE]

TerminalScoreAnyWin(w, maximizing_player) ==
    IF w = Draw THEN 0 ELSE 1

\* The score of a finished board: 0, or +1 / -1 from maximizing_player's side.
TerminalScore(w, maximizing_player) ==
    IF w = Draw THEN 0
    ELSE IF w = maximizing_player THEN 1 ELSE -1

RECURSIVE minimax(_, _, _, _, _, _)

\* The exception of a recursive call passing through frame f: the loop stops
\* where it is and the cell tried stays as it is.
Propagate(f, r) == [f EXCEPT !.err = TRUE, !.stop = TRUE, !.board = r.board]

\* One pass of the maximizing loop, for candidate m; entry is the board the
\* loop started with, last says m is the last candidate, d is the depth of
\* this frame.
MaxBody(f, entry, player, maximizing_player, m, last, d) ==
    LET r == minimax(Place(f.board, m, player), other(player),
                     maximizing_player, f.alpha, f.beta, d + 1)
        value == IF r.value > f.value THEN r.value ELSE f.value
        alpha == Max(f.alpha, value)
    IN IF r.err THEN Propagate(f, r)
       ELSE [err |-> FALSE,
             board |-> Undo(r.board, m),
             value |-> value,
             best_move |-> IF r.value > f.value THEN m ELSE f.best_move,
             alpha |-> alpha,
             beta |-> f.beta,
             had |-> f.had,
             depth |-> Max(f.depth, 1 + r.depth),
             stop |-> alpha >= f.beta,
             cut |-> f.cut \/ r.cut \/ (alpha >= f.beta /\ ~last),
             sib |-> f.sib /\ r.sib /\ f.board = entry,
             dec |-> f.dec /\ r.dec /\ r.had < f.had]

\* One pass of the minimizing loop, for candidate m.
MinBody(f, entry, player, maximizing_player, m, last, d) ==
    LET r == minimax(Place(f.board, m, player), other(player),
                     maximizing_player, f.alpha, f.beta, d + 1)
        value == IF r.value < f.value THEN r.value ELSE f.value
        beta == Min(f.beta, value)
    IN IF r.err THEN Propagate(f, r)
       ELSE [err |-> FALSE,
             board |-> Undo(r.board, m),
             value |-> value,
             best_move |-> IF r.value < f.value THEN m ELSE f.best_move,
             alpha |-> f.alpha,
             beta |-> beta,
             had |-> f.had,
             depth |-> Max(f.depth, 1 + r.depth),
             stop |-> f.alpha >= beta,
             cut |-> f.cut \/ r.cut \/ (f.alpha >= beta /\ ~last),
             sib |-> f.sib /\ r.sib /\ f.board = entry,
             dec |-> f.dec /\ r.dec /\ r.had < f.had]

RECURSIVE MaxLoop(_, _, _, _, _, _, _)
RECURSIVE MinLoop(_, _, _, _, _, _, _)

\* for m in moves: ... of the maximizing branch, from the k-th move on.
MaxLoop(f, entry, player, maximizing_player, moves, k, d) ==
    IF k > Len(moves) THEN f
    ELSE LET g == MaxBody(f, entry, player, maximizing_player, moves[k],
                          k = Len(moves), d)
         IN IF g.stop THEN g
            ELSE MaxLoop(g, entry, player, maximizing_player, moves, k + 1, d)

\* for m in moves: ... of the minimizing branch.
MinLoop(f, entry, player, maximizing_player, moves, k, d) ==
    IF k > Len(moves) THEN f
    ELSE LET g == MinBody(f, entry, player, maximizing_player, moves[k],
                          k = Len(moves), d)
         IN IF g.stop THEN g
            ELSE MinLoop(g, entry, player, maximizing_player, moves, k + 1, d)

\* minimax; d is the number of frames of the search on the stack, this one
\* included.  The frame returned holds the tuple (value, best_move).
minimax(b, player, maximizing_player, alpha, beta, d) ==
    LET winner_ == IF d > MaxRecursion THEN None ELSE check_winner(b) IN
    CASE d > MaxRecursion ->
           Raised(b)
      [] d <= MaxRecursion /\ winner_ # None ->
           Frame(b, TerminalScore(winner_, maximizing_player), alpha, beta)
      [] d <= MaxRecursion /\ winner_ = None /\ player = maximizing_player ->
           MaxLoop(Frame(b, NegInf, alpha, beta), b, player, maximizing_player,
                   available_moves(b), 1, d)
      [] d <= MaxRecursion /\ winner_ = None /\ player # maximizing_player ->
           MinLoop(Frame(b, PosInf, alpha, beta), b, player, maximizing_player,
                   available_moves(b), 1, d)

\* The alpha the top-level loop hands to minimax for a candidate: the
\* default argument, whatever the best score so far.
RootAlphaShared(best_score) == best_score

RootAlpha(best_score) == NegInf

\* One pass of the loop of best_move_for_ai, for candidate m.
BestBody(f, entry, ai, m) ==
    LET r == minimax(Place(f.board, m, ai), other(ai), ai,
                     RootAlpha(f.best_score), PosInf, 2)
    IN IF r.err THEN Propagate(f, r)
       ELSE [err |-> FALSE,
             board |-> Undo(r.board, m),
             best_score |-> IF r.value > f.best_score THEN r.value
                            ELSE f.best_score,
             best_moves |-> IF r.value > f.best_score THEN <<m>>
                            ELSE IF r.value = f.best_score
                                 THEN Append(f.best_moves, m)
                                 ELSE f.best_moves,
             had |-> f.had,
             depth |-> Max(f.depth, 1 + r.depth),
             stop |-> FALSE,
             cut |-> f.cut \/ r.cut,
             sib |-> f.sib /\ r.sib /\ f.board = entry,
             dec |-> f.dec /\ r.dec /\ r.had < f.had]

RECURSIVE BestLoop(_, _, _, _, _)

\* for m in moves: ... of best_move_for_ai, from the k-th move on.
BestLoop(f, entry, ai, moves, k) ==
    IF k > Len(moves) THEN f
    ELSE LET g == BestBody(f, entry, ai, moves[k])
         IN IF g.stop THEN g
            ELSE BestLoop(g, entry, ai, moves, k + 1)

\* best_move_for_ai up to its last line: the locals when random.choice is
\* reached.
best_move_for_ai(b, ai) ==
    BestLoop([err |-> FALSE, board |-> b, best_score |-> NegInf,
              best_moves |-> <<>>, had |-> NumEmpty(b), depth |-> 0,
              stop |-> FALSE, cut |-> FALSE, sib |-> TRUE, dec |-> TRUE],
             b, ai, available_moves(b), 1)

Range(s) == {s[i] : i \in 1..Len(s)}

\* random.choice(best_moves): any element; IndexError on an empty list.
Choices(best_moves) == Range(best_moves)

----------------------------------------------------------------------------
(* The command-line driver: play *)

Count(b, s) == Cardinality({i \in CellSet : b[i] = s})

HasLine(b, s) == \E k \in 1..Len(WIN_LINES) : LineWon(b, k) /\ b[WIN_LINES[k][1]] = s

\* The boards play can show: X moved first, the turns alternated, and
\* nobody moved after a win.
Legal(b) ==
    /\ Count(b, "X") - Count(b, "O") \in {0, 1}
    /\ HasLine(b, "X") => Count(b, "X") = Count(b, "O") + 1 /\ ~HasLine(b, "O")
    /\ HasLine(b, "O") => Count(b, "X") = Count(b, "O") /\ ~HasLine(b, "X")

LegalBoards == {b \in [CellSet -> CellValues] : Legal(b)}

\* The symbol whose turn it is on a board of play.
ToMove(b) == IF Count(b, "X") = Count(b, "O") THEN "X" ELSE "O"

\* What the user can type at the move prompt, as idx = int(user) - 1.
Typed == -1..9

AcceptsTaken(b, idx) == idx \in CellSet

\* human_turn takes idx: it is a cell number and the cell is free.
Accepts(b, idx) == idx \in CellSet /\ b[idx] = Empty

\* choose_first: ch is the answer, stripped and lowered.
choose_first(human, ch) ==
    IF ch = "" THEN (IF human = "X" THEN "human" ELSE "ai")
    ELSE IF ch \in {"h", "human"} THEN "human"
    ELSE "ai"

\* if winner: ...
Truthy(w) == w # None

NoCall == [fn |-> "none"]

Init ==
    /\ pc = "mode"
    /\ mode = "none"
    /\ human_symbol = "none"
    /\ ai_symbol = "none"
    /\ first = "none"
    /\ current = "none"
    /\ board = fresh_board
    /\ winner = None
    /\ first_mover = "none"
    /\ ret = NoCall

\* choose_mode, and for "hvh" the line current = "X".
ChooseMode ==
    /\ pc = "mode"
    /\ \E m \in {"hva", "hvh"} :
         /\ mode' = m
         /\ pc' = IF m = "hvh" THEN "loop" ELSE "symbol"
         /\ current' = IF m = "hvh" THEN "X" ELSE current
    /\ UNCHANGED <<human_symbol, ai_symbol, first, board, winner, first_mover, ret>>

ChooseSymbol ==
    /\ pc = "symbol"
    /\ \E s \in Symbols :
         /\ human_symbol' = s
         /\ ai_symbol' = other(s)
    /\ pc' = "first"
    /\ UNCHANGED <<mode, first, current, board, winner, first_mover, ret>>

\* first = choose_first(human_symbol); current = "X"
ChooseFirst ==
    /\ pc = "first"
    /\ \E ch \in {"", "h", "human", "a", "ai"} : first' = choose_first(human_symbol, ch)
    /\ current' = "X"
    /\ pc' = "loop"
    /\ UNCHANGED <<mode, human_symbol, ai_symbol, board, winner, first_mover, ret>>

\* The end of one pass of either loop: winner = check_winner(board), then
\* break or current = other(current).
AfterMove(b) ==
    /\ winner' = check_winner(b)
    /\ pc' = IF Truthy(check_winner(b)) THEN "done" ELSE "loop"
    /\ current' = IF Truthy(check_winner(b)) THEN current ELSE other(current)

\* One pass of the human-vs-human loop.
HvhTurn ==
    /\ pc = "loop"
    /\ mode = "hvh"
    /\ \E idx \in Typed :
         /\ Accepts(board, idx)
         /\ board' = Place(board, idx, current)
         /\ AfterMove(Place(board, idx, current))
    /\ first_mover' = IF first_mover = "none" THEN "human" ELSE first_mover
    /\ UNCHANGED <<mode, human_symbol, ai_symbol, first, ret>>

\* One pass of the human-vs-AI loop with player_type = "human".
HvaHumanTurn ==
    /\ pc = "loop"
    /\ mode = "hva"
    /\ current = human_symbol
    /\ \E idx \in Typed :
         /\ Accepts(board, idx)
         /\ board' = Place(board, idx, current)
         /\ AfterMove(Place(board, idx, current))
    /\ first_mover' = IF first_mover = "none" THEN "human" ELSE first_mover
    /\ UNCHANGED <<mode, human_symbol, ai_symbol, first, ret>>

\* One pass of the human-vs-AI loop with player_type = "ai".
HvaAiTurn ==
    /\ pc = "loop"
    /\ mode = "hva"
    /\ current # human_symbol
    /\ \E f \in {best_move_for_ai(board, ai_symbol)} :
       IF f.err \/ f.best_moves = <<>>
       THEN /\ pc' = "crashed"
            /\ board' = f.board
            /\ ret' = [fn |-> "best_move_for_ai", arg |-> board,
                       raised |-> IF f.err THEN "RecursionError" ELSE "IndexError",
                       best_moves |-> f.best_moves]
            /\ UNCHANGED <<winner, current, first_mover>>
       ELSE \E move \in Choices(f.best_moves) :
            /\ board' = Place(f.board, move, ai_symbol)
            /\ ret' = [fn |-> "best_move_for_ai", arg |-> board, raised |-> None,
                       index |-> move, best_moves |-> f.best_moves]
            /\ AfterMove(Place(f.board, move, ai_symbol))
            /\ first_mover' = IF first_mover = "none" THEN "ai" ELSE first_mover
    /\ UNCHANGED <<mode, human_symbol, ai_symbol, first>>

\* The user types q at a move prompt: exit(0).
Quit ==
    /\ pc = "loop"
    /\ mode = "hvh" \/ current = human_symbol
    /\ pc' = "exited"
    /\ UNCHANGED <<mode, human_symbol, ai_symbol, first, current, board, winner,
                   first_mover, ret>>

Next ==
    \/ ChooseMode
    \/ ChooseSymbol
    \/ ChooseFirst
    \/ HvhTurn
    \/ HvaHumanTurn
    \/ HvaAiTurn
    \/ Quit

Spec == Init /\ [][Next]_vars

----------------------------------------------------------------------------
(* The functions called on their own.                                      *)
(* SearchSpec: one call of minimax or of best_move_for_ai on a board play  *)
(* can show.  BoardSpec: one call of check_winner on any list of 9 cells.  *)

SearchInit ==
    /\ mode = "none"
    /\ human_symbol = "none"
    /\ first = "none"
    /\ winner = None
    /\ first_mover = "none"
    /\ ret = NoCall
    /\ board \in LegalBoards
    /\ ai_symbol \in Symbols
    /\ \/ pc = "call minimax" /\ current \in Symbols
       \/ pc = "call best_move_for_ai" /\ current = "none"

\* minimax(board, current, ai_symbol)
CallMinimax ==
    /\ pc = "call minimax"
    /\ \E r \in {minimax(board, current, ai_symbol, NegInf, PosInf, 1)} :
         /\ ret' = [fn |-> "minimax", arg |-> board,
                    raised |-> IF r.err THEN "RecursionError" ELSE None,
                    score |-> r.value, move |-> r.best_move,
                    depth |-> r.depth, cut |-> r.cut, sib |-> r.sib,
                    dec |-> r.dec]
         /\ board' = r.board
    /\ pc' = "returned"
    /\ UNCHANGED <<mode, human_symbol, ai_symbol, first, current, winner, first_mover>>

\* best_move_for_ai(board, ai_symbol)
CallBestMove ==
    /\ pc = "call best_move_for_ai"
    /\ \E f \in {best_move_for_ai(board, ai_symbol)} :
         /\ board' = f.board
         /\ IF f.err \/ f.best_moves = <<>>
            THEN ret' = [fn |-> "best_move_for_ai", arg |-> board,
                         raised |-> IF f.err THEN "RecursionError" ELSE "IndexError",
                         index |-> NoMove, best_score |-> f.best_score,
                         best_moves |-> f.best_moves, depth |-> f.depth,
                         cut |-> f.cut, sib |-> f.sib, dec |-> f.dec]
            ELSE \E move \in Choices(f.best_moves) :
                 ret' = [fn |-> "best_move_for_ai", arg |-> board,
                         raised |-> None,
                         index |-> move, best_score |-> f.best_score,
                         best_moves |-> f.best_moves, depth |-> f.depth,
                         cut |-> f.cut, sib |-> f.sib, dec |-> f.dec]
    /\ pc' = "returned"
    /\ UNCHANGED <<mode, human_symbol, ai_symbol, first, current, winner, first_mover>>

SearchNext ==
    \/ CallMinimax
    \/ CallBestMove

SearchSpec == SearchInit /\ [][SearchNext]_vars

BoardInit ==
    /\ pc = "call check_winner"
    /\ mode = "none"
    /\ human_symbol = "none"
    /\ ai_symbol = "none"
    /\ first = "none"
    /\ current = "none"
    /\ winner = None
    /\ first_mover = "none"
    /\ ret = NoCall
    /\ board \in [CellSet -> CellValues]

\* check_winner(board)
CallCheckWinner ==
    /\ pc = "call check_winner"
    /\ ret' = [fn |-> "check_winner", arg |-> board, value |-> check_winner(board)]
    /\ pc' = "returned"
    /\ UNCHANGED <<mode, human_symbol, ai_symbol, first, current, board, winner,
                   first_mover>>

BoardNext == CallCheckWinner

BoardSpec == BoardInit /\ [][BoardNext]_vars

----------------------------------------------------------------------------
(* The game-theoretic value, by exhaustive search without any cutoff.      *)

\* The value of a one-element set.
Only(T) == CHOOSE x \in T : TRUE

Greatest(S) == CHOOSE v \in S : \A u \in S : u <= v

Least(S) == CHOOSE v \in S : \A u \in S : u >= v

RECURSIVE ExactValue(_, _, _)
ExactValue(b, player, ai) ==
    Only({ IF w # None THEN TerminalScore(w, ai)
           ELSE Only({ IF player = ai THEN Greatest(S) ELSE Least(S) :
                       S \in {{ExactValue([b EXCEPT ![i] = player], other(player), ai) :
                                 i \in {j \in CellSet : b[j] = Empty}}} }) :
           w \in {check_winner(b)} })

\* The moves of ai on b whose exhaustive value is the greatest.
ExactBest(b, ai) ==
    Only({ {i \in DOMAIN val : \A j \in DOMAIN val : val[j] <= val[i]} :
           val \in {[i \in {j \in CellSet : b[j] = Empty} |->
                      ExactValue([b EXCEPT ![i] = ai], other(ai), ai)]} })

Full(b) == \A i \in CellSet : b[i] # Empty

Scenario2Board ==
    [i \in CellSet |-> IF i \in {0, 1} THEN "X" ELSE IF i \in {3, 4} THEN "O" ELSE Empty]

Scenario3Board ==
    [i \in CellSet |-> IF i \in {0, 4} THEN "X" ELSE IF i = 1 THEN "O" ELSE Empty]

Scenario4Board ==
    [i \in CellSet |-> IF i \in {0, 2, 4, 7} THEN "X" ELSE "O"]

Called(fn) == ret.fn = fn

----------------------------------------------------------------------------
(* Claims *)

\* C1: in a human-vs-AI game from the empty board, X moving first, the AI
\* playing any member of best_move_for_ai's tie set and the human any legal
\* move, the human's symbol never completes a win-line and the game never
\* ends with the human as winner, whichever symbol the AI plays.
C1_HumanNeverWins ==
    mode = "hva" =>
        /\ ~HasLine(board, human_symbol)
        /\ winner # human_symbol
        /\ pc # "crashed"

C1_Witness ==
    /\ mode = "hva"
    /\ pc = "done"
    /\ ai_symbol = "O"
    /\ winner = "O"

\* C2: on every non-terminal board of play with the AI to move, the list
\* best_move_for_ai samples from holds exactly the legal moves whose
\* exhaustive minimax value is the greatest one.  (The list does not depend
\* on the element random.choice picks: it is compared with the exhaustive
\* search once per call, in the state where the first element was picked.)
C2_TieSetIsExactArgmax ==
    (/\ Called("best_move_for_ai")
     /\ check_winner(ret.arg) = None
     /\ ai_symbol = ToMove(ret.arg))
    => /\ ret.raised = None
       /\ ret.index \in Range(ret.best_moves)
       /\ Len(ret.best_moves) = Cardinality(Range(ret.best_moves))
       /\ ret.index = ret.best_moves[1] =>
            Range(ret.best_moves) = ExactBest(ret.arg, ai_symbol)

C2_Witness ==
    /\ Called("best_move_for_ai")
    /\ ret.raised = None
    /\ ret.arg = fresh_board
    /\ ai_symbol = "X"
    /\ ret.cut
    /\ ret.index = 4
    /\ Range(ret.best_moves) = CellSet

\* C3 as stated: for every list of 9 cells, check_winner returns s iff some
\* win-line is filled with s, 'D' iff the board is full with no line filled,
\* and None otherwise.
C3_Original ==
    Called("check_winner") =>
        /\ \A s \in Symbols : ret.value = s <=> HasLine(ret.arg, s)
        /\ ret.value = Draw <=>
             (Full(ret.arg) /\ ~HasLine(ret.arg, "X") /\ ~HasLine(ret.arg, "O"))
        /\ ret.value = None <=>
             (~Full(ret.arg) /\ ~HasLine(ret.arg, "X") /\ ~HasLine(ret.arg, "O"))

\* C3 as amended: check_winner returns s iff the first win-line of WIN_LINES,
\* in the declared order, that one symbol fills is filled with s (which, on
\* a board where X and O do not both fill a line, is: iff some win-line is
\* filled with s); 'D' iff the board is full with no line filled; None
\* otherwise.
C3_Amended ==
    Called("check_winner") =>
        /\ \A s \in Symbols :
             ret.value = s <=>
                \E k \in 1..Len(WIN_LINES) :
                    /\ \A c \in 1..3 : ret.arg[WIN_LINES[k][c]] = s
                    /\ \A j \in 1..(k - 1) : ~LineWon(ret.arg, j)
        /\ ~(HasLine(ret.arg, "X") /\ HasLine(ret.arg, "O")) =>
             \A s \in Symbols : ret.value = s <=> HasLine(ret.arg, s)
        /\ ret.value = Draw <=>
             (Full(ret.arg) /\ ~HasLine(ret.arg, "X") /\ ~HasLine(ret.arg, "O"))
        /\ ret.value = None <=>
             (~Full(ret.arg) /\ ~HasLine(ret.arg, "X") /\ ~HasLine(ret.arg, "O"))

C3_Witness ==
    /\ Called("check_winner")
    /\ ret.arg = Scenario4Board
    /\ ret.value = Draw

\* C4: when minimax or best_move_for_ai returns, the 9 cells of the board
\* are what they were at the call, also after a loop was left through the
\* alpha >= beta break, and every candidate of every loop was tried on the
\* board its loop started with.
C4_BoardRestored ==
    ((Called("minimax") \/ Called("best_move_for_ai")) /\ ret.raised = None)
    => (board = ret.arg /\ ret.sib)

C4_Witness ==
    /\ Called("minimax")
    /\ ret.raised = None
    /\ ret.cut
    /\ NumEmpty(ret.arg) >= 4
    /\ board = ret.arg

\* C5 as stated: best_move_for_ai on a full or otherwise terminal board ends
\* in an error and returns no cell index.
C5_TerminalCallRaises ==
    (Called("best_move_for_ai") /\ check_winner(ret.arg) # None)
    => (ret.raised # None /\ ret.index = NoMove)

\* C6 as stated: on the board with X at 0 and 4 and O at 1, best_move_for_ai
\* for O returns 8 whatever random.choice picks.
C6_Original ==
    (Called("best_move_for_ai") /\ ret.arg = Scenario3Board /\ ai_symbol = "O")
    => (ret.raised = None /\ ret.index = 8)

\* C6 as amended: on that board every move of O scores -1, the list
\* random.choice picks from is all six Empty cells 2, 3, 5, 6, 7, 8, and
\* best_move_for_ai returns one of them (8 among them).
C6_Amended ==
    (Called("best_move_for_ai") /\ ret.arg = Scenario3Board /\ ai_symbol = "O")
    => /\ ret.raised = None
       /\ ret.best_score = -1
       /\ ret.best_moves = <<2, 3, 5, 6, 7, 8>>
       /\ ret.index \in {2, 3, 5, 6, 7, 8}

C6_Witness ==
    /\ Called("best_move_for_ai")
    /\ ret.arg = Scenario3Board
    /\ ai_symbol = "O"
    /\ ret.index = 2

\* C7: on the board with X at 0 and 1 and O at 3 and 4, best_move_for_ai for
\* X returns 2 whatever random.choice picks: 2 is the only move of the list.
C7_ImmediateWin ==
    (Called("best_move_for_ai") /\ ret.arg = Scenario2Board /\ ai_symbol = "X")
    => (ret.raised = None /\ ret.index = 2 /\ ret.best_moves = <<2>>)

C7_Witness ==
    /\ Called("best_move_for_ai")
    /\ ret.arg = Scenario2Board
    /\ ai_symbol = "X"
    /\ ret.index = 2
    /\ ret.best_score = 1

\* C8: in human-vs-AI mode the side choose_first returned is the side that
\* makes the first move.
C8_FirstMoverIsChosen ==
    (mode = "hva" /\ first_mover # "none") => first_mover = first

\* C9: every board change of a game sets one Empty cell to the symbol of the
\* player whose turn it is and leaves the other 8 cells alone; none happens
\* once check_winner has reported a win or a draw; and best_move_for_ai is
\* only called on a board that is not terminal.
C9_MovesAreLegal ==
    [][/\ board' # board =>
            /\ pc = "loop"
            /\ winner = None
            /\ check_winner(board) = None
            /\ \E i \in CellSet :
                 /\ board[i] = Empty
                 /\ board' = [board EXCEPT ![i] = current]
       /\ (ret' # ret /\ ret'.fn = "best_move_for_ai") =>
            (ret'.arg = board /\ check_winner(board) = None)]_vars

C9_Witness ==
    /\ Called("best_move_for_ai")
    /\ pc = "done"
    /\ winner = Draw
    /\ Full(board)

\* C10: every call of minimax and of best_move_for_ai terminates: each
\* recursive call gets a board with fewer Empty cells than its caller's, and
\* the recursion is never deeper than the Empty cells of the board passed in.
C10_SearchTerminates ==
    (Called("minimax") \/ Called("best_move_for_ai"))
    => /\ ret.raised # "RecursionError"
       /\ ret.dec
       /\ ret.depth <= NumEmpty(ret.arg)

C10_Witness ==
    /\ Called("best_move_for_ai")
    /\ ret.arg = fresh_board
    /\ ret.depth = 9
    /\ ret.raised = None

====
